---- MODULE Spec2Model ----
(***************************************************************************)
(* geoclue-prometheus-exporter: the exporter process of src/src/main.rs    *)
(* (main task, shutdown task, the remote GeoClue2 service as environment), *)
(* its validator set_gauge_if_valid, and the reconnection pieces whose     *)
(* source is not in src/ (disconnection classifier, retry state).          *)
(***************************************************************************)
EXTENDS Integers, Sequences, FiniteSets, TLC

VARIABLES
    \* ---- the exporter process (src/src/main.rs) ----
    pc,                \* position of the main task in main()
    sd,                \* position of the spawned shutdown task
    proc,              \* "running", or how the process ended
    gauges,            \* the metrics sink: metric name -> f64
    received_updates,  \* UpdateTracker.received_updates
    cur,               \* lat/lon/acc/alt/spd/head read for the current notification
    pre,               \* the sink as it was when the current notification was taken
    stream,            \* LocationUpdated signals queued in location_updated_stream
    streamClosed,      \* the stream will yield None once drained
    subscribed,        \* receive_signal("LocationUpdated") has returned
    client,            \* the remote client object: "none", "created", "started", "stopped"
    emitted,           \* notifications the remote service has emitted after Start
    lost,              \* of these, emitted before the subscription existed
    requested,         \* a termination request (SIGINT) has reached the process
    mainErr,           \* the step whose error main() returned, or "none"
    stopCalls,         \* Stop calls the remote client has served
    args,              \* Args::parse(): the command line
    conns,             \* system bus connections the process has opened
    props,             \* the properties written to the remote client object
    errText,           \* the text of the error main() returned, or <<>>
    client_path,       \* the object path GetClient returned, or ""
    calls,             \* the uses made of the bus: by which task, over which
                       \* connection, on which object path, what
    \* ---- one call of set_gauge_if_valid ----
    vPhase, vName, vValue, vRet, vBefore,
    \* ---- one call of is_disconnection_error ----
    cPhase, cText, cRet,
    \* ---- the reconnection supervisor ----
    supState, attempt, delay, shutdownFlag, slept, failures, supErr

procVars == <<pc, sd, proc, received_updates, cur, pre, stream, streamClosed,
              subscribed, client, emitted, lost, requested, mainErr, stopCalls,
              args, conns, props, errText, client_path, calls>>
valVars  == <<vPhase, vName, vValue, vRet, vBefore>>
clsVars  == <<cPhase, cText, cRet>>
supVars  == <<supState, attempt, delay, shutdownFlag, slept, failures, supErr>>
vars     == <<procVars, gauges, valVars, clsVars, supVars>>

(***************************************************************************)
(* f64.  A value is NaN, +inf, -inf or finite.  A finite value is held as  *)
(* an integer count of thousandths (35.123 is Fin(35123)).  -1.7e308 and   *)
(* the values below it are far outside that range; they are held as        *)
(* integers below every other modelled value, which keeps every comparison *)
(* the code makes.                                                         *)
(***************************************************************************)
Fin(m) == [k |-> "fin", m |-> m]
NaN    == [k |-> "nan", m |-> 0]
PosInf == [k |-> "inf", m |-> 1]
NegInf == [k |-> "inf", m |-> -1]

Neg17e308 == Fin(-2000000000)   \* -1.7e308
NegF64Max == Fin(-2100000000)   \* f64::MIN, about -1.797e308

is_finite_NotNaN(v) == v.k # "nan"
is_finite(v) == v.k = "fin"

\* a < b and a > b as IEEE 754 orders them (false whenever NaN is involved)
FLt(a, b) ==
    /\ a.k # "nan" /\ b.k # "nan"
    /\ \/ a.k = "fin" /\ b.k = "fin" /\ a.m < b.m
       \/ a.k = "inf" /\ a.m < 0 /\ ~(b.k = "inf" /\ b.m < 0)
       \/ b.k = "inf" /\ b.m > 0 /\ ~(a.k = "inf" /\ a.m > 0)
FGt(a, b) == FLt(b, a)

\* `n as f64` for the update counter
U64AsF64(n) == Fin(n * 1000)

(***************************************************************************)
(* The sink                                                                *)
(***************************************************************************)
MetricNames == {"up", "geoclue_latitude", "geoclue_longitude", "geoclue_accuracy",
                "geoclue_altitude", "geoclue_speed", "geoclue_heading",
                "geoclue_location_updates_received", "geoclue_data_available"}

\* before setup_metrics has installed the recorder nothing is exported
Unset == [k |-> "unset", m |-> 0]
NoGauges == [n \in MetricNames |-> Unset]

\* the gauges as setup_metrics leaves them
SetupGauges == [n \in MetricNames |-> IF n = "up" THEN Fin(1000) ELSE Fin(0)]

(***************************************************************************)
(* set_gauge_if_valid                                                      *)
(***************************************************************************)
\* the per-field bounds (the first match); TRUE when the value passes
RangeOk_LatExclusive(metric_name, value) ==
    CASE metric_name = "latitude"  -> ~(~FGt(value, Fin(-90000)) \/ ~FLt(value, Fin(90000)))
      [] metric_name = "longitude" -> ~(FLt(value, Fin(-180000)) \/ FGt(value, Fin(180000)))
      [] metric_name \in {"accuracy", "speed"} -> ~FLt(value, Fin(0))
      [] metric_name = "heading"   -> ~(FLt(value, Fin(0)) \/ FGt(value, Fin(360000)))
      [] OTHER -> TRUE
RangeOk_HeadingExclusive(metric_name, value) ==
    CASE metric_name = "latitude"  -> ~(FLt(value, Fin(-90000)) \/ FGt(value, Fin(90000)))
      [] metric_name = "longitude" -> ~(FLt(value, Fin(-180000)) \/ FGt(value, Fin(180000)))
      [] metric_name \in {"accuracy", "speed"} -> ~FLt(value, Fin(0))
      [] metric_name = "heading"   -> ~(FLt(value, Fin(0)) \/ ~FLt(value, Fin(360000)))
      [] OTHER -> TRUE
RangeOk_AccuracyPositive(metric_name, value) ==
    CASE metric_name = "latitude"  -> ~(FLt(value, Fin(-90000)) \/ FGt(value, Fin(90000)))
      [] metric_name = "longitude" -> ~(FLt(value, Fin(-180000)) \/ FGt(value, Fin(180000)))
      [] metric_name \in {"accuracy", "speed"} -> ~(~FGt(value, Fin(0)))
      [] metric_name = "heading"   -> ~(FLt(value, Fin(0)) \/ FGt(value, Fin(360000)))
      [] OTHER -> TRUE
RangeOk_LonAsLat(metric_name, value) ==
    CASE metric_name = "latitude"  -> ~(FLt(value, Fin(-90000)) \/ FGt(value, Fin(90000)))
      [] metric_name = "longitude" -> ~(FLt(value, Fin(-90000)) \/ FGt(value, Fin(90000)))
      [] metric_name \in {"accuracy", "speed"} -> ~FLt(value, Fin(0))
      [] metric_name = "heading"   -> ~(FLt(value, Fin(0)) \/ FGt(value, Fin(360000)))
      [] OTHER -> TRUE
RangeOk_AltitudeBounded(metric_name, value) ==
    CASE metric_name = "latitude"  -> ~(FLt(value, Fin(-90000)) \/ FGt(value, Fin(90000)))
      [] metric_name = "longitude" -> ~(FLt(value, Fin(-180000)) \/ FGt(value, Fin(180000)))
      [] metric_name \in {"accuracy", "speed"} -> ~FLt(value, Fin(0))
      [] metric_name = "heading"   -> ~(FLt(value, Fin(0)) \/ FGt(value, Fin(360000)))
      [] metric_name = "altitude"  -> ~FLt(value, Fin(0))
      [] OTHER -> TRUE
RangeOk(metric_name, value) ==
    CASE metric_name = "latitude"  -> ~(FLt(value, Fin(-90000)) \/ FGt(value, Fin(90000)))
      [] metric_name = "longitude" -> ~(FLt(value, Fin(-180000)) \/ FGt(value, Fin(180000)))
      [] metric_name \in {"accuracy", "speed"} -> ~FLt(value, Fin(0))
      [] metric_name = "heading"   -> ~(FLt(value, Fin(0)) \/ FGt(value, Fin(360000)))
      [] OTHER -> TRUE

\* the gauge a field name is published under (the second match); "" for an
\* unknown name
GaugeOf_DefaultAltitude(metric_name) ==
    CASE metric_name = "latitude"  -> "geoclue_latitude"
      [] metric_name = "longitude" -> "geoclue_longitude"
      [] metric_name = "accuracy"  -> "geoclue_accuracy"
      [] metric_name = "altitude"  -> "geoclue_altitude"
      [] metric_name = "speed"     -> "geoclue_speed"
      [] metric_name = "heading"   -> "geoclue_heading"
      [] OTHER -> "geoclue_altitude"
GaugeOf(metric_name) ==
    CASE metric_name = "latitude"  -> "geoclue_latitude"
      [] metric_name = "longitude" -> "geoclue_longitude"
      [] metric_name = "accuracy"  -> "geoclue_accuracy"
      [] metric_name = "altitude"  -> "geoclue_altitude"
      [] metric_name = "speed"     -> "geoclue_speed"
      [] metric_name = "heading"   -> "geoclue_heading"
      [] OTHER -> ""

\* the whole function: what it returns and the sink it leaves
set_gauge_if_valid_ClearOnReject(g, metric_name, value) ==
    IF ~is_finite(value) \/ ~RangeOk(metric_name, value) \/ GaugeOf(metric_name) = ""
    THEN [ret |-> FALSE,
          gauges |-> IF metric_name = "latitude"
                     THEN [g EXCEPT !["geoclue_data_available"] = Fin(0)]
                     ELSE g]
    ELSE IF metric_name = "latitude"
         THEN [ret |-> TRUE,
               gauges |-> [g EXCEPT !["geoclue_latitude"] = value,
                                    !["geoclue_data_available"] = Fin(1000)]]
         ELSE [ret |-> TRUE, gauges |-> [g EXCEPT ![GaugeOf(metric_name)] = value]]
set_gauge_if_valid_AlwaysAvailable(g, metric_name, value) ==
    IF ~is_finite(value) THEN [ret |-> FALSE, gauges |-> g]
    ELSE IF ~RangeOk(metric_name, value) THEN [ret |-> FALSE, gauges |-> g]
    ELSE IF GaugeOf(metric_name) = "" THEN [ret |-> FALSE, gauges |-> g]
    ELSE [ret |-> TRUE,
          gauges |-> [g EXCEPT ![GaugeOf(metric_name)] = value,
                               !["geoclue_data_available"] = Fin(1000)]]
set_gauge_if_valid(g, metric_name, value) ==
    IF ~is_finite(value) THEN [ret |-> FALSE, gauges |-> g]
    ELSE IF ~RangeOk(metric_name, value) THEN [ret |-> FALSE, gauges |-> g]
    ELSE IF GaugeOf(metric_name) = "" THEN [ret |-> FALSE, gauges |-> g]
    ELSE IF metric_name = "latitude"
         THEN [ret |-> TRUE,
               gauges |-> [g EXCEPT !["geoclue_latitude"] = value,
                                    !["geoclue_data_available"] = Fin(1000)]]
         ELSE [ret |-> TRUE, gauges |-> [g EXCEPT ![GaugeOf(metric_name)] = value]]

(***************************************************************************)
(* The remote service's side: what a LocationUpdated signal carries and    *)
(* what the location object it names returns.                              *)
(***************************************************************************)
MaxNotifications == 2

Fields == {"lat", "lon", "acc", "alt", "spd", "head"}

\* the name main() passes to set_gauge_if_valid for each local
FieldName(f) ==
    CASE f = "lat" -> "latitude" [] f = "lon" -> "longitude" [] f = "acc" -> "accuracy"
      [] f = "alt" -> "altitude" [] f = "spd" -> "speed" [] f = "head" -> "heading"

\* latitude 35.123, longitude 135.456, accuracy 10.5, altitude -1.0, speed -1.0,
\* heading 270.0
EndToEnd == [lat |-> Fin(35123), lon |-> Fin(135456), acc |-> Fin(10500),
             alt |-> Fin(-1000), spd |-> Fin(-1000), head |-> Fin(270000)]
\* a location with every field available
AllKnown == [lat |-> Fin(-33900), lon |-> Fin(-120), acc |-> Fin(5000),
             alt |-> Fin(123400), spd |-> Fin(5200), head |-> Fin(90000)]
\* a location with out-of-range, non-finite and <= -1.7e308 values
Unusable == [lat |-> Fin(91000), lon |-> NaN, acc |-> Fin(-1000),
             alt |-> Neg17e308, spd |-> NegF64Max, head |-> Neg17e308]
\* a location whose latitude is just out of range while every other field is
\* inside or on its bound
NoLatitude == [lat |-> Fin(-90001), lon |-> Fin(180000), acc |-> Fin(0),
               alt |-> Fin(-12500), spd |-> Fin(0), head |-> Fin(360000)]
Readings == {EndToEnd, AllKnown, Unusable, NoLatitude}

\* a queued signal: whether its body decodes as (old_path, new_path), and the
\* location object new_path names
Signals == [ok : {TRUE}, loc : Readings] \cup [ok : {FALSE}, loc : {EndToEnd}]

Unread == [k |-> "unread", m |-> 0]
NoSignal == [ok |-> FALSE, loc |-> [f \in Fields |-> Unread]]
NoReading == [sig |-> NoSignal, lat |-> Unread, lon |-> Unread, acc |-> Unread,
              alt |-> Unread, spd |-> Unread, head |-> Unread]

(***************************************************************************)
(* The disconnection classifier.  Its source is not in src/ (tests.rs      *)
(* calls is_disconnection_error); it is taken from the specification.  An  *)
(* error text is a sequence of characters.                                 *)
(***************************************************************************)
Upper == <<"A", "B", "C", "D", "E", "F", "G", "H", "I", "J", "K", "L", "M",
           "N", "O", "P", "Q", "R", "S", "T", "U", "V", "W", "X", "Y", "Z">>
Lower == <<"a", "b", "c", "d", "e", "f", "g", "h", "i", "j", "k", "l", "m",
           "n", "o", "p", "q", "r", "s", "t", "u", "v", "w", "x", "y", "z">>

ToLowerChar(c) ==
    IF \E i \in 1..26 : Upper[i] = c
    THEN Lower[CHOOSE i \in 1..26 : Upper[i] = c]
    ELSE c
ToUpperChar(c) ==
    IF \E i \in 1..26 : Lower[i] = c
    THEN Upper[CHOOSE i \in 1..26 : Lower[i] = c]
    ELSE c
ToLower(t) == [i \in 1..Len(t) |-> ToLowerChar(t[i])]
ToUpper(t) == [i \in 1..Len(t) |-> ToUpperChar(t[i])]

\* p occurs in t as a contiguous substring
Contains(t, p) ==
    \E i \in 0..(Len(t) - Len(p)) : SubSeq(t, i + 1, i + Len(p)) = p

\* "remote peer disconnected"
PRemotePeer ==
    <<"r", "e", "m", "o", "t", "e", " ", "p", "e", "e", "r", " ", "d", "i", "s", "c",
      "o", "n", "n", "e", "c", "t", "e", "d">>
\* "connection closed"
PConnClosed ==
    <<"c", "o", "n", "n", "e", "c", "t", "i", "o", "n", " ", "c", "l", "o", "s", "e",
      "d">>
\* "no reply"
PNoReply ==
    <<"n", "o", " ", "r", "e", "p", "l", "y">>
\* "disconnected"
PDisconnected ==
    <<"d", "i", "s", "c", "o", "n", "n", "e", "c", "t", "e", "d">>
\* "broken pipe"
PBrokenPipe ==
    <<"b", "r", "o", "k", "e", "n", " ", "p", "i", "p", "e">>
\* "transport endpoint is not connected"
PTransport ==
    <<"t", "r", "a", "n", "s", "p", "o", "r", "t", " ", "e", "n", "d", "p", "o", "i",
      "n", "t", " ", "i", "s", " ", "n", "o", "t", " ", "c", "o", "n", "n", "e", "c",
      "t", "e", "d">>
DisconnectPatterns == {PRemotePeer, PConnClosed, PNoReply, PDisconnected, PBrokenPipe, PTransport}

is_disconnection_error_CaseSensitive(text) ==
    \E p \in DisconnectPatterns : Contains(text, p)
is_disconnection_error(text) ==
    LET error_str == ToLower(text)
    IN  \E p \in DisconnectPatterns : Contains(error_str, p)

\* the error texts of test_is_disconnection_error
\* "org.freedesktop.DBus.Error.NoReply: Remote peer disconnected"
TNoReplyRemote ==
    <<"o", "r", "g", ".", "f", "r", "e", "e", "d", "e", "s", "k", "t", "o", "p", ".",
      "D", "B", "u", "s", ".", "E", "r", "r", "o", "r", ".", "N", "o", "R", "e", "p",
      "l", "y", ":", " ", "R", "e", "m", "o", "t", "e", " ", "p", "e", "e", "r", " ",
      "d", "i", "s", "c", "o", "n", "n", "e", "c", "t", "e", "d">>
\* "Connection closed by peer"
TClosedByPeer ==
    <<"C", "o", "n", "n", "e", "c", "t", "i", "o", "n", " ", "c", "l", "o", "s", "e",
      "d", " ", "b", "y", " ", "p", "e", "e", "r">>
\* "Transport endpoint is not connected"
TTransport ==
    <<"T", "r", "a", "n", "s", "p", "o", "r", "t", " ", "e", "n", "d", "p", "o", "i",
      "n", "t", " ", "i", "s", " ", "n", "o", "t", " ", "c", "o", "n", "n", "e", "c",
      "t", "e", "d">>
\* "Broken pipe (os error 32)"
TBrokenPipe ==
    <<"B", "r", "o", "k", "e", "n", " ", "p", "i", "p", "e", " ", "(", "o", "s", " ",
      "e", "r", "r", "o", "r", " ", "3", "2", ")">>
\* "No reply from remote service"
TNoReply ==
    <<"N", "o", " ", "r", "e", "p", "l", "y", " ", "f", "r", "o", "m", " ", "r", "e",
      "m", "o", "t", "e", " ", "s", "e", "r", "v", "i", "c", "e">>
\* "Permission denied"
TPermission ==
    <<"P", "e", "r", "m", "i", "s", "s", "i", "o", "n", " ", "d", "e", "n", "i", "e",
      "d">>
\* "Invalid argument"
TInvalidArg ==
    <<"I", "n", "v", "a", "l", "i", "d", " ", "a", "r", "g", "u", "m", "e", "n", "t">>
\* "File not found"
TFileNotFound ==
    <<"F", "i", "l", "e", " ", "n", "o", "t", " ", "f", "o", "u", "n", "d">>
\* "Service not found"
TServiceNotFound ==
    <<"S", "e", "r", "v", "i", "c", "e", " ", "n", "o", "t", " ", "f", "o", "u", "n",
      "d">>
TestDisconnectionErrors == {TNoReplyRemote, TClosedByPeer, TTransport, TBrokenPipe, TNoReply}
TestOtherErrors == {TPermission, TInvalidArg, TFileNotFound, TServiceNotFound}

\* texts that resemble a pattern without containing one
\* "peer will disconnect"
NDisconnect ==
    <<"p", "e", "e", "r", " ", "w", "i", "l", "l", " ", "d", "i", "s", "c", "o", "n",
      "n", "e", "c", "t">>
\* "NoReply"
NNoReply ==
    <<"N", "o", "R", "e", "p", "l", "y">>
\* "connection refused"
NRefused ==
    <<"c", "o", "n", "n", "e", "c", "t", "i", "o", "n", " ", "r", "e", "f", "u", "s",
      "e", "d">>
\* "pipe broken"
NPipe ==
    <<"p", "i", "p", "e", " ", "b", "r", "o", "k", "e", "n">>
NearMisses == {NDisconnect, NNoReply, NRefused, NPipe}

\* what may stand before and after the telling part of an error text
XErrorPrefix ==
    <<"E", "r", "r", "o", "r", ":", " ">>
XOsErrorSuffix ==
    <<" ", "(", "o", "s", " ", "e", "r", "r", "o", "r", " ", "1", "0", "7", ")">>
Prefixes == {<<>>, XErrorPrefix}
Suffixes == {<<>>, XOsErrorSuffix}

\* a pattern as written, capitalised, and in capitals
Capitalised(t) == <<ToUpperChar(t[1])>> \o SubSeq(t, 2, Len(t))
Casings(t) == {t, Capitalised(t), ToUpper(t)}

Framed(cores) == {px \o core \o sx : px \in Prefixes, core \in cores, sx \in Suffixes}

\* texts holding a pattern in some casing, and texts holding none
TransientTexts ==
    TestDisconnectionErrors \cup Framed(UNION {Casings(p) : p \in DisconnectPatterns})
FatalTexts ==
    Framed(TestOtherErrors \cup NearMisses \cup {<<>>})
ErrorTexts == TransientTexts \cup FatalTexts

(***************************************************************************)
(* Args and what main() derives from them                                  *)
(***************************************************************************)
AccuracyLevelArg == {"none", "country", "city", "neighborhood", "street", "exact"}
AccuracyLevel == {"None", "Country", "City", "Neighborhood", "Street", "Exact"}

\* impl From<AccuracyLevelArg> for AccuracyLevel
AccuracyLevel_from(arg) ==
    CASE arg = "none"         -> "None"
      [] arg = "country"      -> "Country"
      [] arg = "city"         -> "City"
      [] arg = "neighborhood" -> "Neighborhood"
      [] arg = "street"       -> "Street"
      [] arg = "exact"        -> "Exact"

\* `accuracy_level as u32`: the discriminant of the variant
as_u32_Sequential(level) ==
    CASE level = "None"         -> 0
      [] level = "Country"      -> 1
      [] level = "City"         -> 2
      [] level = "Neighborhood" -> 3
      [] level = "Street"       -> 4
      [] level = "Exact"        -> 5
as_u32(level) ==
    CASE level = "None"         -> 0
      [] level = "Country"      -> 1
      [] level = "City"         -> 4
      [] level = "Neighborhood" -> 5
      [] level = "Street"       -> 6
      [] level = "Exact"        -> 8

\* bind addresses: "127.0.0.1", "0.0.0.0", "invalid-address", "not-an-address%",
\* "256.1.1.1" and "::1"
AddrLoopback ==
    <<"1", "2", "7", ".", "0", ".", "0", ".", "1">>
AddrAny ==
    <<"0", ".", "0", ".", "0", ".", "0">>
AddrInvalid ==
    <<"i", "n", "v", "a", "l", "i", "d", "-", "a", "d", "d", "r", "e", "s", "s">>
AddrNotAnAddress ==
    <<"n", "o", "t", "-", "a", "n", "-", "a", "d", "d", "r", "e", "s", "s", "%">>
AddrBadOctet ==
    <<"2", "5", "6", ".", "1", ".", "1", ".", "1">>
AddrV6Loopback ==
    <<":", ":", "1">>
BindAddresses == {AddrLoopback, AddrAny, AddrInvalid, AddrNotAnAddress, AddrBadOctet,
                  AddrV6Loopback}

\* format!("{}:{}", bind_address, port).parse::<SocketAddr>().  The port is a u16
\* and always parses; the IPv6 form needs brackets, which no modelled address
\* has; what is left is whether bind_address is a dotted quad of four decimal
\* octets without leading zeros.
Digits == <<"0", "1", "2", "3", "4", "5", "6", "7", "8", "9">>
IsDigit(c) == \E i \in 1..10 : Digits[i] = c
DigitValue(c) == (CHOOSE i \in 1..10 : Digits[i] = c) - 1
RECURSIVE DecimalValue(_)
DecimalValue(t) ==
    IF t = <<>> THEN 0
    ELSE 10 * DecimalValue(SubSeq(t, 1, Len(t) - 1)) + DigitValue(t[Len(t)])
IsOctet(t) ==
    /\ Len(t) \in 1..3
    /\ \A i \in 1..Len(t) : IsDigit(t[i])
    /\ Len(t) > 1 => t[1] # "0"
    /\ DecimalValue(t) <= 255
Dots(t) == {i \in 1..Len(t) : t[i] = "."}
ParsesAsSocketAddr(bind_address) ==
    \E a, b, c \in 1..Len(bind_address) :
        /\ a < b /\ b < c /\ Dots(bind_address) = {a, b, c}
        /\ IsOctet(SubSeq(bind_address, 1, a - 1))
        /\ IsOctet(SubSeq(bind_address, a + 1, b - 1))
        /\ IsOctet(SubSeq(bind_address, b + 1, c - 1))
        /\ IsOctet(SubSeq(bind_address, c + 1, Len(bind_address)))

\* the defaults of struct Args
DefaultArgs ==
    [bind_address |-> AddrLoopback, accuracy_level |-> "street",
     distance_threshold |-> 10, time_threshold |-> 30]

\* the remote client object's writable properties before any write
NoProps ==
    [DesktopId |-> "", DistanceThreshold |-> -1, TimeThreshold |-> -1,
     RequestedAccuracyLevel |-> -1]
PKG_NAME == "geoclue-prometheus-exporter"

\* the texts setup_metrics puts in front of its two errors:
\* "Failed to parse bind address" and "Failed to start Prometheus metrics server"
TParseBind ==
    <<"F", "a", "i", "l", "e", "d", " ", "t", "o", " ", "p", "a", "r", "s", "e", " ",
      "b", "i", "n", "d", " ", "a", "d", "d", "r", "e", "s", "s">>
TInstall ==
    <<"F", "a", "i", "l", "e", "d", " ", "t", "o", " ", "s", "t", "a", "r", "t", " ",
      "P", "r", "o", "m", "e", "t", "h", "e", "u", "s", " ", "m", "e", "t", "r", "i",
      "c", "s", " ", "s", "e", "r", "v", "e", "r">>

\* texts of the errors a bus call can return (the library's, not in src/): one
\* the service being absent gives, one a refusal gives, one a lost peer gives
RemoteErrors == {TServiceNotFound, TPermission, TNoReplyRemote}

(***************************************************************************)
(* main(): the main task                                                   *)
(***************************************************************************)
Running == proc = "running"

\* `?` on an Err: main returns the error and the process ends with a failure
FailWith(step, text) ==
    /\ pc' = "failed" /\ mainErr' = step /\ errText' = text /\ proc' = "err"
Fail_TryAgain(step) ==
    \E text \in RemoteErrors :
        /\ pc' = (IF step \in {"connect", "manager", "getclient"} THEN "connect" ELSE "failed")
        /\ mainErr' = step /\ errText' = text
        /\ proc' = (IF step \in {"connect", "manager", "getclient"} THEN proc ELSE "err")
Fail(step) == \E text \in RemoteErrors : FailWith(step, text)

\* the two connections main() opens, in the order it opens them
connection == 1
shutdown_connection == 2

\* object paths: the manager's, the one GetClient returns, and the one a
\* LocationUpdated signal names
ManagerPath == "/org/freedesktop/GeoClue2/Manager"
ClientPaths == {"/org/freedesktop/GeoClue2/Client/1"}
LocationPath == "/org/freedesktop/GeoClue2/Client/1/Location/0"

\* a task uses a connection for a proxy or a call on an object path
Use(by, conn, path, member) ==
    calls' = calls \cup {[by |-> by, conn |-> conn, path |-> path, member |-> member]}

\* a step that awaits one remote call or local fallible call and goes on
Step(from, to) ==
    /\ Running /\ pc = from
    /\ \/ pc' = to /\ UNCHANGED <<mainErr, errText, proc>>
       \/ Fail(from)

\* setup_metrics, and main's `return Err(e)` when it fails
MSetup_IgnoresParse ==
    /\ Running /\ pc = "setup"
    /\ \/ /\ gauges' = SetupGauges
          /\ pc' = "connect"
          /\ UNCHANGED <<mainErr, errText, proc>>
       \/ /\ FailWith("install_recorder", TInstall)
          /\ UNCHANGED gauges
    /\ UNCHANGED <<calls, client_path, args, conns, props, sd, received_updates,
                   cur, pre, stream, streamClosed, subscribed, client, emitted,
                   lost, requested, stopCalls>>
MSetup ==
    /\ Running /\ pc = "setup"
    /\ IF ~ParsesAsSocketAddr(args.bind_address)
       THEN /\ FailWith("parse_bind_address", TParseBind)
            /\ UNCHANGED gauges
       ELSE \/ /\ gauges' = SetupGauges
               /\ pc' = "connect"
               /\ UNCHANGED <<mainErr, errText, proc>>
            \/ /\ FailWith("install_recorder", TInstall)
               /\ UNCHANGED gauges
    /\ UNCHANGED <<calls, client_path, args, conns, props, sd, received_updates,
                   cur, pre, stream, streamClosed, subscribed, client, emitted,
                   lost, requested, stopCalls>>

\* Connection::system(), for main and then for the shutdown handler
MConnection ==
    /\ Running /\ pc \in {"connect", "shutconn"}
    /\ \/ /\ pc' = (IF pc = "connect" THEN "manager" ELSE "clientproxy")
          /\ conns' = conns + 1
          /\ UNCHANGED <<mainErr, errText, proc>>
       \/ Fail(pc) /\ UNCHANGED conns
    /\ UNCHANGED <<calls, client_path, args, props, sd, gauges,
                   received_updates, cur, pre, stream, streamClosed, subscribed,
                   client, emitted, lost, requested, stopCalls>>

\* the manager proxy and the client proxy
MPlain ==
    /\ \/ Step("manager", "getclient")
       \/ Step("clientproxy", "setDesktopId")
    /\ Use("main", connection,
           IF pc = "manager" THEN ManagerPath ELSE client_path, "Proxy")
    /\ UNCHANGED <<client_path, args, conns, props, sd, gauges,
                   received_updates, cur, pre, stream, streamClosed, subscribed,
                   client, emitted, lost, requested, stopCalls>>

\* the four set_property calls, with the values main() passes
MSetProperty_IgnoreError ==
    /\ Running
    /\ pc \in {"setDesktopId", "setDistanceThreshold", "setTimeThreshold",
               "setRequestedAccuracyLevel"}
    /\ \/ /\ CASE pc = "setDesktopId" ->
                    /\ props' = [props EXCEPT !.DesktopId = PKG_NAME]
                    /\ pc' = "setDistanceThreshold"
               [] pc = "setDistanceThreshold" ->
                    /\ props' = [props EXCEPT !.DistanceThreshold = args.distance_threshold]
                    /\ pc' = "setTimeThreshold"
               [] pc = "setTimeThreshold" ->
                    /\ props' = [props EXCEPT !.TimeThreshold = args.time_threshold]
                    /\ pc' = "setRequestedAccuracyLevel"
               [] pc = "setRequestedAccuracyLevel" ->
                    /\ props' = [props EXCEPT !.RequestedAccuracyLevel =
                                    as_u32(AccuracyLevel_from(args.accuracy_level))]
                    /\ pc' = "start"
          /\ UNCHANGED <<mainErr, errText, proc>>
       \/ /\ pc' = (CASE pc = "setDesktopId" -> "setDistanceThreshold"
                      [] pc = "setDistanceThreshold" -> "setTimeThreshold"
                      [] pc = "setTimeThreshold" -> "setRequestedAccuracyLevel"
                      [] pc = "setRequestedAccuracyLevel" -> "start")
          /\ UNCHANGED <<props, mainErr, errText, proc>>
    /\ Use("main", connection, client_path, "Set")
    /\ UNCHANGED <<client_path, args, conns, sd, gauges, received_updates, cur,
                   pre, stream, streamClosed, subscribed, client, emitted, lost,
                   requested, stopCalls>>
MSetProperty ==
    /\ Running
    /\ pc \in {"setDesktopId", "setDistanceThreshold", "setTimeThreshold",
               "setRequestedAccuracyLevel"}
    /\ \/ /\ CASE pc = "setDesktopId" ->
                    /\ props' = [props EXCEPT !.DesktopId = PKG_NAME]
                    /\ pc' = "setDistanceThreshold"
               [] pc = "setDistanceThreshold" ->
                    /\ props' = [props EXCEPT !.DistanceThreshold = args.distance_threshold]
                    /\ pc' = "setTimeThreshold"
               [] pc = "setTimeThreshold" ->
                    /\ props' = [props EXCEPT !.TimeThreshold = args.time_threshold]
                    /\ pc' = "setRequestedAccuracyLevel"
               [] pc = "setRequestedAccuracyLevel" ->
                    /\ props' = [props EXCEPT !.RequestedAccuracyLevel =
                                    as_u32(AccuracyLevel_from(args.accuracy_level))]
                    /\ pc' = "start"
          /\ UNCHANGED <<mainErr, errText, proc>>
       \/ Fail(pc) /\ UNCHANGED props
    /\ Use("main", connection, client_path, "Set")
    /\ UNCHANGED <<client_path, args, conns, sd, gauges, received_updates, cur,
                   pre, stream, streamClosed, subscribed, client, emitted, lost,
                   requested, stopCalls>>

MGetClient ==
    /\ Running /\ pc = "getclient"
    /\ \/ /\ pc' = "shutconn" /\ client' = "created"
          /\ client_path' \in ClientPaths
          /\ UNCHANGED <<mainErr, errText, proc>>
       \/ Fail("getclient") /\ UNCHANGED <<client, client_path>>
    /\ Use("main", connection, ManagerPath, "GetClient")
    /\ UNCHANGED <<args, conns, props, sd, gauges, received_updates, cur, pre,
                   stream, streamClosed, subscribed, emitted, lost, requested,
                   stopCalls>>

MStart ==
    /\ Running /\ pc = "start"
    /\ \/ /\ pc' = "spawn" /\ client' = "started"
          /\ UNCHANGED <<mainErr, errText, proc>>
       \/ Fail("start") /\ UNCHANGED client
    /\ Use("main", connection, client_path, "Start")
    /\ UNCHANGED <<client_path, args, conns, props, sd, gauges,
                   received_updates, cur, pre, stream, streamClosed, subscribed,
                   emitted, lost, requested, stopCalls>>

\* tokio::spawn of the shutdown task (the process-metrics task is not modelled)
MSpawn ==
    /\ Running /\ pc = "spawn"
    /\ pc' = "subscribe" /\ sd' = "spawned"
    /\ UNCHANGED <<calls, client_path, args, conns, props, proc, gauges,
                   received_updates, cur, pre, stream, streamClosed, subscribed,
                   client, emitted, lost, requested, mainErr, errText,
                   stopCalls>>

MSubscribe ==
    /\ Running /\ pc = "subscribe"
    /\ \/ /\ pc' = "next" /\ subscribed' = TRUE
          /\ UNCHANGED <<mainErr, errText, proc>>
       \/ Fail("subscribe") /\ UNCHANGED subscribed
    /\ Use("main", connection, client_path, "AddMatch")
    /\ UNCHANGED <<client_path, args, conns, props, sd, gauges,
                   received_updates, cur, pre, stream, streamClosed, client,
                   emitted, lost, requested, stopCalls>>

\* location_updated_stream.next().await
MNext_TakeNewest ==
    /\ Running /\ pc = "next"
    /\ \/ /\ stream # <<>>
          /\ cur' = [NoReading EXCEPT !.sig = stream[Len(stream)]]
          /\ stream' = SubSeq(stream, 1, Len(stream) - 1)
          /\ pre' = gauges
          /\ pc' = "count"
       \/ /\ stream = <<>> /\ streamClosed
          /\ pc' = "stop"
          /\ UNCHANGED <<cur, pre, stream>>
    /\ UNCHANGED <<calls, client_path, args, conns, props, sd, proc, gauges,
                   received_updates, streamClosed, subscribed, client, emitted,
                   lost, requested, mainErr, errText, stopCalls>>
MNext ==
    /\ Running /\ pc = "next"
    /\ \/ /\ stream # <<>>
          /\ cur' = [NoReading EXCEPT !.sig = Head(stream)]
          /\ stream' = Tail(stream)
          /\ pre' = gauges
          /\ pc' = "count"
       \/ /\ stream = <<>> /\ streamClosed
          /\ pc' = "stop"
          /\ UNCHANGED <<cur, pre, stream>>
    /\ UNCHANGED <<calls, client_path, args, conns, props, sd, proc, gauges,
                   received_updates, streamClosed, subscribed, client, emitted,
                   lost, requested, mainErr, errText, stopCalls>>

\* the block holding the tracker lock
MCount_PublishStale ==
    /\ Running /\ pc = "count"
    /\ received_updates' = received_updates + 1
    /\ gauges' = [gauges EXCEPT !["geoclue_location_updates_received"] =
                                   U64AsF64(received_updates)]
    /\ pc' = "decode"
    /\ UNCHANGED <<calls, client_path, args, conns, props, sd, proc, cur, pre,
                   stream, streamClosed, subscribed, client, emitted, lost,
                   requested, mainErr, errText, stopCalls>>
MCount ==
    /\ Running /\ pc = "count"
    /\ received_updates' = received_updates + 1
    /\ gauges' = [gauges EXCEPT !["geoclue_location_updates_received"] =
                                   U64AsF64(received_updates')]
    /\ pc' = "decode"
    /\ UNCHANGED <<calls, client_path, args, conns, props, sd, proc, cur, pre,
                   stream, streamClosed, subscribed, client, emitted, lost,
                   requested, mainErr, errText, stopCalls>>

\* body_owned.deserialize()?
MDecode_SkipUndecodable ==
    /\ Running /\ pc = "decode"
    /\ \/ /\ cur.sig.ok /\ pc' = "locproxy" /\ UNCHANGED <<mainErr, errText, proc>>
       \/ /\ ~cur.sig.ok /\ pc' = "next" /\ UNCHANGED <<mainErr, errText, proc>>
    /\ UNCHANGED <<calls, client_path, args, conns, props, sd, gauges,
                   received_updates, cur, pre, stream, streamClosed, subscribed,
                   client, emitted, lost, requested, stopCalls>>
MDecode ==
    /\ Running /\ pc = "decode"
    /\ \/ /\ cur.sig.ok /\ pc' = "locproxy" /\ UNCHANGED <<mainErr, errText, proc>>
       \/ /\ ~cur.sig.ok /\ Fail("decode")
    /\ UNCHANGED <<calls, client_path, args, conns, props, sd, gauges,
                   received_updates, cur, pre, stream, streamClosed, subscribed,
                   client, emitted, lost, requested, stopCalls>>

MLocProxy ==
    /\ Step("locproxy", "read_lat")
    /\ Use("main", connection, LocationPath, "Proxy")
    /\ UNCHANGED <<client_path, args, conns, props, sd, gauges,
                   received_updates, cur, pre, stream, streamClosed, subscribed,
                   client, emitted, lost, requested, stopCalls>>

\* the order of the six get_property calls and of the six set_gauge_if_valid calls
FieldOrder == <<"lat", "lon", "acc", "alt", "spd", "head">>
After(f, last, prefix) ==
    LET i == CHOOSE j \in 1..6 : FieldOrder[j] = f
    IN  IF i = 6 THEN last ELSE prefix \o FieldOrder[i + 1]

\* location.get_property(...).await?
MRead_PublishAsRead(f) ==
    /\ Running /\ pc = "read_" \o f
    /\ \/ /\ cur' = [cur EXCEPT ![f] = cur.sig.loc[f]]
          /\ gauges' = set_gauge_if_valid(gauges, FieldName(f), cur.sig.loc[f]).gauges
          /\ pc' = After(f, "set_lat", "read_")
          /\ UNCHANGED <<mainErr, errText, proc>>
       \/ Fail(pc) /\ UNCHANGED <<cur, gauges>>
    /\ Use("main", connection, LocationPath, "Get")
    /\ UNCHANGED <<client_path, args, conns, props, sd,
                   received_updates, pre, stream, streamClosed, subscribed,
                   client, emitted, lost, requested, stopCalls>>
MRead(f) ==
    /\ Running /\ pc = "read_" \o f
    /\ \/ /\ cur' = [cur EXCEPT ![f] = cur.sig.loc[f]]
          /\ pc' = After(f, "set_lat", "read_")
          /\ UNCHANGED <<mainErr, errText, proc>>
       \/ Fail(pc) /\ UNCHANGED cur
    /\ Use("main", connection, LocationPath, "Get")
    /\ UNCHANGED <<client_path, args, conns, props, sd, gauges,
                   received_updates, pre, stream, streamClosed, subscribed,
                   client, emitted, lost, requested, stopCalls>>

\* set_gauge_if_valid("latitude", lat); ... ; the return value is dropped
MSet_RejectEndsLoop(f) ==
    /\ Running /\ pc = "set_" \o f
    /\ gauges' = set_gauge_if_valid(gauges, FieldName(f), cur[f]).gauges
    /\ IF set_gauge_if_valid(gauges, FieldName(f), cur[f]).ret
       THEN pc' = After(f, "next", "set_") /\ UNCHANGED <<mainErr, errText, proc>>
       ELSE Fail(pc)
    /\ UNCHANGED <<calls, client_path, args, conns, props, sd, received_updates,
                   cur, pre, stream, streamClosed, subscribed, client, emitted,
                   lost, requested, stopCalls>>
MSet_Unvalidated(f) ==
    /\ Running /\ pc = "set_" \o f
    /\ gauges' = [gauges EXCEPT ![GaugeOf(FieldName(f))] = cur[f]]
    /\ pc' = After(f, "next", "set_")
    /\ UNCHANGED <<calls, client_path, args, conns, props, sd, proc,
                   received_updates, cur, pre, stream, streamClosed, subscribed,
                   client, emitted, lost, requested, mainErr, errText,
                   stopCalls>>
MSet_MarksAvailable(f) ==
    /\ Running /\ pc = "set_" \o f
    /\ gauges' = IF set_gauge_if_valid(gauges, FieldName(f), cur[f]).ret
                 THEN [set_gauge_if_valid(gauges, FieldName(f), cur[f]).gauges
                         EXCEPT !["geoclue_data_available"] = Fin(1000)]
                 ELSE gauges
    /\ pc' = After(f, "next", "set_")
    /\ UNCHANGED <<calls, client_path, args, conns, props, sd, proc,
                   received_updates, cur, pre, stream, streamClosed, subscribed,
                   client, emitted, lost, requested, mainErr, errText,
                   stopCalls>>
MSet(f) ==
    /\ Running /\ pc = "set_" \o f
    /\ gauges' = set_gauge_if_valid(gauges, FieldName(f), cur[f]).gauges
    /\ pc' = After(f, "next", "set_")
    /\ UNCHANGED <<calls, client_path, args, conns, props, sd, proc,
                   received_updates, cur, pre, stream, streamClosed, subscribed,
                   client, emitted, lost, requested, mainErr, errText,
                   stopCalls>>

\* after the stream ended: client.call("Stop")?
MStop ==
    /\ Running /\ pc = "stop"
    /\ \/ /\ pc' = "upzero" /\ client' = "stopped" /\ stopCalls' = stopCalls + 1
          /\ UNCHANGED <<mainErr, errText, proc>>
       \/ Fail("stop") /\ UNCHANGED <<client, stopCalls>>
    /\ Use("main", connection, client_path, "Stop")
    /\ UNCHANGED <<client_path, args, conns, props, sd, gauges,
                   received_updates, cur, pre, stream, streamClosed, subscribed,
                   emitted, lost, requested>>

MUpZero ==
    /\ Running /\ pc = "upzero"
    /\ gauges' = [gauges EXCEPT !["up"] = Fin(0)]
    /\ pc' = "return"
    /\ UNCHANGED <<calls, client_path, args, conns, props, sd, proc,
                   received_updates, cur, pre, stream, streamClosed, subscribed,
                   client, emitted, lost, requested, mainErr, errText,
                   stopCalls>>

\* Ok(()): main returns and the runtime is dropped
MReturn ==
    /\ Running /\ pc = "return"
    /\ pc' = "done" /\ proc' = "ok"
    /\ UNCHANGED <<calls, client_path, args, conns, props, sd, gauges,
                   received_updates, cur, pre, stream, streamClosed, subscribed,
                   client, emitted, lost, requested, mainErr, errText,
                   stopCalls>>

MainTask ==
    \/ MSetup \/ MPlain \/ MGetClient \/ MStart \/ MSpawn \/ MSubscribe
    \/ MNext \/ MCount \/ MDecode \/ MLocProxy
    \/ (\E f \in Fields : MRead(f))
    \/ (\E f \in Fields : MSet(f))
    \/ MStop \/ MUpZero \/ MReturn

(***************************************************************************)
(* The shutdown task spawned by main()                                     *)
(***************************************************************************)
\* the task's first poll: ctrl_c() installs the SIGINT handler and waits, or
\* fails, and then the task logs and returns with no handler installed
SListen ==
    /\ Running /\ sd = "spawned"
    /\ sd' \in {"listen", "returned"}
    /\ UNCHANGED <<calls, client_path, args, conns, props, pc, proc, gauges,
                   received_updates, cur, pre, stream, streamClosed, subscribed,
                   client, emitted, lost, requested, mainErr, errText,
                   stopCalls>>

\* zbus::Proxy::new(&shutdown_connection, ...): Ok goes on to Stop, Err is logged
SProxy ==
    /\ Running /\ sd = "proxy"
    /\ sd' \in {"stop", "upzero"}
    /\ Use("shutdown", shutdown_connection, client_path, "Proxy")
    /\ UNCHANGED <<client_path, args, conns, props, pc, proc, gauges,
                   received_updates, cur, pre, stream, streamClosed, subscribed,
                   client, emitted, lost, requested, mainErr, errText,
                   stopCalls>>

\* shutdown_client.call("Stop"): served by the client, or an error that is logged
SStop_FailureReturns ==
    /\ Running /\ sd = "stop"
    /\ \/ sd' = "upzero" /\ client' = "stopped" /\ stopCalls' = stopCalls + 1
       \/ sd' = "returned" /\ UNCHANGED <<client, stopCalls>>
    /\ Use("shutdown", shutdown_connection, client_path, "Stop")
    /\ UNCHANGED <<client_path, args, conns, props, pc, proc, gauges,
                   received_updates, cur, pre, stream, streamClosed, subscribed,
                   emitted, lost, requested, mainErr, errText>>
SStop_OverMainConnection ==
    /\ Running /\ sd = "stop"
    /\ sd' = "upzero"
    /\ \/ client' = "stopped" /\ stopCalls' = stopCalls + 1
       \/ UNCHANGED <<client, stopCalls>>
    /\ Use("shutdown", connection, client_path, "Stop")
    /\ UNCHANGED <<client_path, args, conns, props, pc, proc, gauges,
                   received_updates, cur, pre, stream, streamClosed, subscribed,
                   emitted, lost, requested, mainErr, errText>>
SStop ==
    /\ Running /\ sd = "stop"
    /\ sd' = "upzero"
    /\ \/ client' = "stopped" /\ stopCalls' = stopCalls + 1
       \/ UNCHANGED <<client, stopCalls>>
    /\ Use("shutdown", shutdown_connection, client_path, "Stop")
    /\ UNCHANGED <<client_path, args, conns, props, pc, proc, gauges,
                   received_updates, cur, pre, stream, streamClosed, subscribed,
                   emitted, lost, requested, mainErr, errText>>

SUpZero ==
    /\ Running /\ sd = "upzero"
    /\ gauges' = [gauges EXCEPT !["up"] = Fin(0)]
    /\ sd' = "exit"
    /\ UNCHANGED <<calls, client_path, args, conns, props, pc, proc,
                   received_updates, cur, pre, stream, streamClosed, subscribed,
                   client, emitted, lost, requested, mainErr, errText,
                   stopCalls>>

\* the task returns without ending the process
SExit_Return ==
    /\ Running /\ sd = "exit"
    /\ sd' = "returned"
    /\ UNCHANGED <<calls, client_path, args, conns, props, pc, proc, gauges,
                   received_updates, cur, pre, stream, streamClosed, subscribed,
                   client, emitted, lost, requested, mainErr, errText,
                   stopCalls>>
\* std::process::exit(0)
SExit ==
    /\ Running /\ sd = "exit"
    /\ sd' = "exited" /\ proc' = "exit0"
    /\ UNCHANGED <<calls, client_path, args, conns, props, pc, gauges,
                   received_updates, cur, pre, stream, streamClosed, subscribed,
                   client, emitted, lost, requested, mainErr, errText,
                   stopCalls>>

ShutdownTask == SListen \/ SProxy \/ SStop \/ SUpZero \/ SExit

(***************************************************************************)
(* The environment: the operator's interrupt, the remote service, the bus  *)
(***************************************************************************)
\* SIGINT.  With the handler of ctrl_c() installed the waiting task resumes;
\* with no handler installed (the task not spawned or not polled yet, or its
\* registration failed) the default disposition ends the process.  Once the task has resumed a
\* further signal changes nothing.
CtrlC ==
    /\ Running
    /\ \/ /\ sd = "listen"
          /\ sd' = "proxy" /\ requested' = TRUE
          /\ UNCHANGED proc
       \/ /\ sd \in {"none", "spawned", "returned"}
          /\ proc' = "killed" /\ requested' = TRUE
          /\ UNCHANGED sd
    /\ UNCHANGED <<calls, client_path, args, conns, props, pc, gauges,
                   received_updates, cur, pre, stream, streamClosed, subscribed,
                   client, emitted, lost, mainErr, errText, stopCalls>>

\* the started client emits LocationUpdated; a signal sent before the match rule
\* of receive_signal exists reaches no stream
Emit(sig) ==
    /\ Running /\ client = "started" /\ ~streamClosed
    /\ emitted < MaxNotifications
    /\ emitted' = emitted + 1
    /\ IF subscribed
       THEN stream' = Append(stream, sig) /\ UNCHANGED lost
       ELSE lost' = lost + 1 /\ UNCHANGED stream
    /\ UNCHANGED <<calls, client_path, args, conns, props, pc, sd, proc, gauges,
                   received_updates, cur, pre, streamClosed, subscribed, client,
                   requested, mainErr, errText, stopCalls>>

\* the bus connection is severed: the stream ends after what is queued
StreamEnd ==
    /\ Running /\ subscribed /\ ~streamClosed
    /\ streamClosed' = TRUE
    /\ UNCHANGED <<calls, client_path, args, conns, props, pc, sd, proc, gauges,
                   received_updates, cur, pre, stream, subscribed, client,
                   emitted, lost, requested, mainErr, errText, stopCalls>>

Environment == CtrlC \/ (\E sig \in Signals : Emit(sig)) \/ StreamEnd

(***************************************************************************)
(* The process as a whole                                                  *)
(***************************************************************************)
ProcStart(a) ==
    /\ args = a /\ conns = 0 /\ props = NoProps /\ errText = <<>>
    /\ client_path = "" /\ calls = {}
    /\ pc = "setup" /\ sd = "none" /\ proc = "running"
    /\ received_updates = 0
    /\ cur = NoReading /\ pre = NoGauges
    /\ stream = <<>> /\ streamClosed = FALSE /\ subscribed = FALSE
    /\ client = "none" /\ emitted = 0 /\ lost = 0
    /\ requested = FALSE /\ mainErr = "none" /\ stopCalls = 0

ProcInit == ProcStart(DefaultArgs)

ValIdle == vPhase = "idle" /\ vName = "" /\ vValue = Unset /\ vRet = FALSE /\ vBefore = NoGauges
ClsIdle == cPhase = "idle" /\ cText = <<>> /\ cRet = FALSE
SupIdle ==
    /\ supState = "Off" /\ attempt = 0 /\ delay = 0 /\ shutdownFlag = FALSE
    /\ slept = <<>> /\ failures = 0 /\ supErr = <<>>

\* the default command line, with a bind address that parses and one that
\* does not
Init ==
    /\ \E b \in {AddrLoopback, AddrNotAnAddress} :
           ProcStart([DefaultArgs EXCEPT !.bind_address = b])
    /\ gauges = NoGauges /\ ValIdle /\ ClsIdle /\ SupIdle

\* the variables of the other specifications of this module
procOthers == <<valVars, clsVars, supVars>>

Next ==
    \/ MSetup /\ UNCHANGED procOthers
    \/ MConnection /\ UNCHANGED procOthers
    \/ MPlain /\ UNCHANGED procOthers
    \/ MSetProperty /\ UNCHANGED procOthers
    \/ MGetClient /\ UNCHANGED procOthers
    \/ MStart /\ UNCHANGED procOthers
    \/ MSpawn /\ UNCHANGED procOthers
    \/ MSubscribe /\ UNCHANGED procOthers
    \/ MNext /\ UNCHANGED procOthers
    \/ MCount /\ UNCHANGED procOthers
    \/ MDecode /\ UNCHANGED procOthers
    \/ MLocProxy /\ UNCHANGED procOthers
    \/ (\E f \in Fields : MRead(f)) /\ UNCHANGED procOthers
    \/ (\E f \in Fields : MSet(f)) /\ UNCHANGED procOthers
    \/ MStop /\ UNCHANGED procOthers
    \/ MUpZero /\ UNCHANGED procOthers
    \/ MReturn /\ UNCHANGED procOthers
    \/ SListen /\ UNCHANGED procOthers
    \/ SProxy /\ UNCHANGED procOthers
    \/ SStop /\ UNCHANGED procOthers
    \/ SUpZero /\ UNCHANGED procOthers
    \/ SExit /\ UNCHANGED procOthers
    \/ CtrlC /\ UNCHANGED procOthers
    \/ (\E sig \in Signals : Emit(sig)) /\ UNCHANGED procOthers
    \/ StreamEnd /\ UNCHANGED procOthers

Spec == Init /\ [][Next]_vars

\* the runtime keeps polling a task that is ready to run,
\* and the awaited calls of the resumed shutdown task return
ShutdownSteps == SProxy \/ SStop \/ SUpZero \/ SExit
FairSpec == Spec /\ WF_vars(ShutdownSteps /\ UNCHANGED procOthers)

(***************************************************************************)
(* Properties of the process                                               *)
(***************************************************************************)
\* the "not available" values of the remote service: exactly -1.0, or <= -1.7e308
IsSentinel(v) ==
    \/ v = Fin(-1000)
    \/ v = Neg17e308
    \/ FLt(v, Neg17e308)

OptionalFields == {"alt", "spd", "head"}

\* what the last taken notification read, once all six reads are done
CurReading == [f \in Fields |-> cur[f]]

\* C1: for altitude, speed and heading, a value read as -1.0 or <= -1.7e308 is
\* absent: no step taken while the notification holds it changes the field's
\* gauge.
C1_SentinelNeverPublished ==
    [][\A f \in OptionalFields :
          IsSentinel(cur[f]) =>
              gauges'[GaugeOf(FieldName(f))] = gauges[GaugeOf(FieldName(f))]]_vars

\* C2: when the notification reading 35.123 / 135.456 / 10.5 / -1.0 / -1.0 / 270.0
\* has been processed, latitude, longitude, accuracy and heading hold those
\* values, altitude and speed hold what they held before it, and
\* geoclue_data_available is 1.
C2_EndToEnd ==
    (pc = "next" /\ CurReading = EndToEnd) =>
        /\ gauges["geoclue_latitude"] = Fin(35123)
        /\ gauges["geoclue_longitude"] = Fin(135456)
        /\ gauges["geoclue_accuracy"] = Fin(10500)
        /\ gauges["geoclue_heading"] = Fin(270000)
        /\ gauges["geoclue_altitude"] = pre["geoclue_altitude"]
        /\ gauges["geoclue_speed"] = pre["geoclue_speed"]
        /\ gauges["geoclue_data_available"] = Fin(1000)

\* the notifications the stream has handed to the loop so far
Delivered == emitted - lost - Len(stream)

Establishing == {"connect", "manager", "getclient", "shutconn", "clientproxy",
                 "setDesktopId", "setDistanceThreshold", "setTimeThreshold",
                 "setRequestedAccuracyLevel", "start"}

\* C7: once a termination request has reached the process it ends, and no step
\* after the request enters session establishment.
C7_ShutdownTerminates ==
    /\ requested ~> ~Running
    /\ [][requested => ~(pc' \in Establishing /\ pc \notin Establishing)]_vars

\* the request arrived while the loop was waiting for a notification, and the
\* shutdown task ended the process
C7_Witness ==
    /\ requested /\ proc = "exit0" /\ pc = "next" /\ received_updates > 0

\* C15: the step that publishes an accepted latitude leaves
\* geoclue_data_available at 1, and once the gauge is 1 no step of the process
\* (a rejected reading, the end of the stream, a failure, shutdown) takes it
\* away from 1.
C15_DataAvailableOneWay ==
    [][/\ (pc = "set_lat" /\ pc' = "set_lon" /\ is_finite(cur.lat)
           /\ cur.lat.m >= -90000 /\ cur.lat.m <= 90000)
          => gauges'["geoclue_data_available"] = Fin(1000)
       /\ gauges["geoclue_data_available"] = Fin(1000)
          => gauges'["geoclue_data_available"] = Fin(1000)]_vars

\* a notification with latitude 91 was processed after one with an accepted
\* latitude, the stream then ended and main returned: the gauge is still 1
C15_Witness ==
    /\ pc = "done" /\ received_updates = 2 /\ cur.lat = Fin(91000)
    /\ gauges["geoclue_data_available"] = Fin(1000) /\ gauges["up"] = Fin(0)

\* C17: in no reachable state has the process finished (main has returned, with
\* success or with an error, or the shutdown task has exited) while up is 1.
C17_UpZeroBeforeFinish ==
    proc \in {"ok", "err", "exit0"} => gauges["up"] # Fin(1000)

\* C18: when the stream ends and no shutdown was requested, main does not
\* return success: the path main takes from the end of the stream ends in an
\* error.
C18_StreamEndIsAnError ==
    (pc = "done" /\ ~requested) => proc # "ok"

\* C20: once a step of establishment has failed with an error that is not a
\* disconnection (service not found, permission denied, ...), main has returned
\* that error, and no later step opens a connection, creates or starts a client
\* or writes a property.
C20_FatalEstablishmentErrorPropagates ==
    /\ []((mainErr \in Establishing /\ errText \in TestOtherErrors) =>
            (proc = "err" /\ pc = "failed"))
    /\ [][(mainErr \in Establishing /\ errText \in TestOtherErrors) =>
            UNCHANGED <<pc, proc, conns, client, props, mainErr, errText, sd>>]_vars

\* GetClient failed with "Service not found": main returned the error with one
\* connection opened and no client created
C20_Witness ==
    /\ mainErr = "getclient" /\ errText = TServiceNotFound
    /\ proc = "err" /\ pc = "failed" /\ conns = 1 /\ client = "none"

\* C21: an error that is a disconnection (a text tests.rs lists as one) never
\* ends the process: main does not return it to its caller.
C21_TransientNeverSurfaced ==
    errText \in TestDisconnectionErrors => proc # "err"

\* all four properties hold what main() writes
PropsWritten ==
    /\ props.DesktopId = PKG_NAME
    /\ props.DistanceThreshold = args.distance_threshold
    /\ props.TimeThreshold = args.time_threshold
    /\ props.RequestedAccuracyLevel # -1

\* C22: establishment is ordered and all-or-nothing.  A step has run only if
\* every step before it succeeded (connection, GetClient, DesktopId,
\* DistanceThreshold, TimeThreshold, RequestedAccuracyLevel, Start); a started
\* client has all four properties written; once a step has failed main has
\* returned its error, the client was not started by a later step, and no
\* monitor loop exists (no shutdown task, no subscription, no notification
\* counted).
C22_EstablishmentOrdered ==
    /\ client # "none" => conns >= 1
    /\ props.DesktopId # "" => client # "none"
    /\ props.DistanceThreshold # -1 => props.DesktopId = PKG_NAME
    /\ props.TimeThreshold # -1 => props.DistanceThreshold = args.distance_threshold
    /\ props.RequestedAccuracyLevel # -1 => props.TimeThreshold = args.time_threshold
    /\ client \in {"started", "stopped"} => PropsWritten
    /\ (sd # "none" \/ subscribed \/ received_updates > 0) =>
          (client \in {"started", "stopped"} /\ PropsWritten)
    /\ mainErr \in Establishing =>
          /\ pc = "failed" /\ proc = "err"
          /\ client \in {"none", "created"}
          /\ sd = "none" /\ ~subscribed /\ received_updates = 0 /\ emitted = 0

\* the write of TimeThreshold failed: DesktopId and DistanceThreshold are
\* written, the accuracy level is not, the client was never started
C22_Witness ==
    /\ mainErr = "setTimeThreshold" /\ pc = "failed" /\ proc = "err"
    /\ props.DistanceThreshold = 10 /\ props.TimeThreshold = -1
    /\ props.RequestedAccuracyLevel = -1 /\ client = "created" /\ conns = 2

\* the positions of the six set_gauge_if_valid calls
Publishing == {"set_lat", "set_lon", "set_acc", "set_alt", "set_spd", "set_head"}

\* a value the code's bounds let through, written out field by field
WithinBounds(f, v) ==
    /\ v.k = "fin"
    /\ f = "lat" => (v.m >= -90000 /\ v.m <= 90000)
    /\ f = "lon" => (v.m >= -180000 /\ v.m <= 180000)
    /\ f \in {"acc", "spd"} => v.m >= 0
    /\ f = "head" => (v.m >= 0 /\ v.m <= 360000)

\* C23: a rejected value never ends the monitor.  No error of main comes from a
\* set_gauge_if_valid call; each of the six calls is followed by the next one,
\* and the sixth by the wait for the next notification, whatever was rejected;
\* and once the six calls are done every field whose value is within its bounds
\* holds that value, whichever of the other fields were rejected.
C23_RejectionNeverEndsMonitor ==
    /\ [](mainErr \notin Publishing)
    /\ [][(pc \in Publishing /\ pc' # pc) =>
            (/\ pc' = (CASE pc = "set_lat" -> "set_lon" [] pc = "set_lon" -> "set_acc"
                         [] pc = "set_acc" -> "set_alt" [] pc = "set_alt" -> "set_spd"
                         [] pc = "set_spd" -> "set_head" [] pc = "set_head" -> "next")
             /\ proc' = proc)]_vars
    /\ []((pc = "next" /\ received_updates > 0) =>
            \A f \in Fields :
                WithinBounds(f, cur[f]) => gauges[GaugeOf(FieldName(f))] = cur[f])

\* a notification with latitude 91, longitude NaN and accuracy -1 (all
\* rejected) was processed after one that set a latitude: the loop is waiting
\* again, and the notification's altitude, read after the rejected fields, is
\* published
C23_Witness ==
    /\ pc = "next" /\ Running /\ received_updates = 2
    /\ cur.lat = Fin(91000) /\ cur.lon = NaN /\ cur.acc = Fin(-1000)
    /\ gauges["geoclue_latitude"] = Fin(35123)
    /\ gauges["geoclue_altitude"] = cur.alt

\* the positions of the six get_property calls
Reading == {"read_lat", "read_lon", "read_acc", "read_alt", "read_spd", "read_head"}

\* the six field gauges
FieldGauges == {GaugeOf(FieldName(f)) : f \in Fields}

\* C24: a notification whose body does not decode, or one of whose six property
\* reads fails, ends the loop with that error: main has returned the error, no
\* field of that notification was published, a notification whose body does not
\* decode gets no further than the decode, and nothing queued behind it is
\* taken or counted afterwards.
C24_DecodeOrReadFailureEndsMonitor ==
    /\ [](mainErr \in {"decode"} \cup Reading =>
            /\ pc = "failed" /\ proc = "err" /\ errText \in RemoteErrors
            /\ \A g \in FieldGauges : gauges[g] = pre[g])
    /\ []((cur.sig # NoSignal /\ ~cur.sig.ok) => pc \in {"count", "decode", "failed"})
    /\ [][(mainErr \in {"decode"} \cup Reading) =>
            UNCHANGED <<received_updates, stream, gauges>>]_vars

\* the read of Accuracy failed for the first notification while a second one
\* was queued: main returned the error, the second stays in the stream
C24_Witness ==
    /\ mainErr = "read_acc" /\ proc = "err" /\ received_updates = 1
    /\ Len(stream) = 1 /\ cur.lat = Fin(35123)
    /\ gauges["geoclue_latitude"] = Fin(0)

\* C25: cleanup on a shutdown request is best-effort.  Once the shutdown task
\* has taken the request the process ends; whether creating the handle fails,
\* the Stop call fails or both succeed, the task's next step is the one that
\* sets up to 0, and the exit follows it: a process ended by the task has up
\* at 0.
C25_BestEffortCleanup ==
    /\ (sd \in {"proxy", "stop", "upzero", "exit"}) ~> ~Running
    /\ [](proc = "exit0" => (requested /\ gauges["up"] = Fin(0)))
    /\ [][(sd = "proxy" /\ sd' # sd) => sd' \in {"stop", "upzero"}]_vars
    /\ [][(sd = "stop" /\ sd' # sd) => sd' = "upzero"]_vars
    /\ [][(sd = "upzero" /\ sd' # sd) =>
            (sd' = "exit" /\ gauges'["up"] = Fin(0))]_vars

\* the request came during monitoring, no Stop call was served (the handle or
\* the call failed), and the process has exited with up at 0
C25_Witness ==
    /\ proc = "exit0" /\ requested /\ subscribed /\ received_updates > 0
    /\ stopCalls = 0 /\ client = "started" /\ gauges["up"] = Fin(0)

\* C26: from setup to final teardown up is 1, and over the life of the process
\* up is set to 0 exactly once: it is 0 only once the stream-end path or the
\* shutdown task has written it, each write of 0 finds it at 1, and a finished
\* process that had set up its metrics has it at 0.
C26_UpZeroExactlyOnce ==
    /\ [](gauges["up"] = Fin(0) =>
            (pc \in {"return", "done"} \/ sd \in {"exit", "exited"}))
    /\ [][((pc = "upzero" /\ pc' = "return") \/ (sd = "upzero" /\ sd' = "exit")) =>
            gauges["up"] = Fin(1000)]_vars
    /\ []((proc \in {"ok", "err", "exit0"} /\ gauges # NoGauges) =>
            gauges["up"] = Fin(0))

\* C27: a shutdown request does not interrupt the processing of a notification:
\* the process is never ended by the shutdown task while main is between the
\* counter increment and the last of the six gauge updates.
C27_CooperativeCancellation ==
    proc = "exit0" => pc \notin ({"decode", "locproxy"} \cup Reading \cup Publishing)

\* C28: notifications are processed in stream order, one at a time.  The stream
\* changes only by a signal joining its tail or by main, waiting, taking its
\* head; the notification being processed is that head and is replaced only by
\* such a take; and the counter moves only by one, in the step that follows a
\* take.
C28_InOrderOneAtATime ==
    /\ [][stream' # stream =>
            \/ \E sig \in Signals : stream' = Append(stream, sig)
            \/ /\ pc = "next" /\ pc' = "count" /\ stream # <<>>
               /\ stream' = Tail(stream) /\ cur'.sig = Head(stream)]_vars
    /\ [][cur'.sig # cur.sig => (pc = "next" /\ stream' = Tail(stream))]_vars
    /\ [][received_updates' # received_updates =>
            (pc = "count" /\ pc' = "decode"
             /\ received_updates' = received_updates + 1)]_vars
    /\ [][(pc' = "count" /\ pc # "count") => pc = "next"]_vars

\* two notifications were queued together, the one emitted first (latitude
\* 35.123) was processed first and the second (latitude -33.9) after it
C28_Witness ==
    /\ pc = "next" /\ received_updates = 2 /\ lost = 0
    /\ pre["geoclue_latitude"] = Fin(35123) /\ pre["geoclue_heading"] = Fin(270000)
    /\ gauges["geoclue_latitude"] = Fin(-33900) /\ cur.sig.loc = AllKnown

\* C29: the shutdown task reaches the bus only over the second connection,
\* opened by its own Connection::system() call, and only on the client path
\* GetClient returned, which is the path Start was called on; the first
\* connection is used by the main task alone.
C29_ShutdownUsesSecondConnection ==
    /\ \A c \in calls :
          c.by = "shutdown" =>
              /\ c.conn = shutdown_connection /\ c.conn # connection
              /\ conns = 2
              /\ c.path = client_path /\ c.path \in ClientPaths
    /\ \A c \in calls : c.conn = connection => c.by = "main"
    /\ \A c, d \in calls :
          (c.member = "Start" /\ d.by = "shutdown") => d.path = c.path
    /\ sd # "none" => conns = 2

\* the shutdown task's Stop was served and the process exited, while main had
\* used the first connection for the session and for reading a location
C29_Witness ==
    /\ proc = "exit0" /\ client = "stopped" /\ stopCalls = 1
    /\ [by |-> "shutdown", conn |-> 2, path |-> client_path, member |-> "Stop"]
          \in calls
    /\ [by |-> "main", conn |-> 1, path |-> client_path, member |-> "Start"]
          \in calls
    /\ [by |-> "main", conn |-> 1, path |-> LocationPath, member |-> "Get"] \in calls

C33_FailedNotificationCountedNotPublished ==
    /\ (Running /\ pc \in {"decode"} \cup Reading) =>
          \A g \in {"geoclue_latitude", "geoclue_longitude", "geoclue_accuracy",
                     "geoclue_altitude", "geoclue_speed", "geoclue_heading",
                     "geoclue_data_available"} : gauges[g] = pre[g]
    /\ (mainErr \in {"decode"} \cup Reading) =>
          /\ \A g \in {"geoclue_latitude", "geoclue_longitude", "geoclue_accuracy",
                        "geoclue_altitude", "geoclue_speed", "geoclue_heading",
                        "geoclue_data_available"} : gauges[g] = pre[g]
          /\ received_updates >= 1
          /\ gauges["geoclue_location_updates_received"] = Fin(1000 * received_updates)
          /\ pre["geoclue_location_updates_received"] =
                 Fin(1000 * (received_updates - 1))

\* the second notification's Heading read failed after its other five values
\* were read: the gauges hold the first notification's latitude and heading,
\* the counter gauge shows 2
C33_Witness ==
    /\ mainErr = "read_head" /\ proc = "err" /\ received_updates = 2
    /\ cur.lat = Fin(-33900) /\ cur.spd = Fin(5200) /\ cur.head = Unread
    /\ gauges["geoclue_latitude"] = Fin(35123)
    /\ gauges["geoclue_heading"] = Fin(270000)
    /\ gauges["geoclue_data_available"] = Fin(1000)
    /\ gauges["geoclue_location_updates_received"] = Fin(2000)

\* C34: geoclue_data_available is 1 only if a latitude was accepted since
\* setup.  After setup it is 0 or 1; the only step that makes it 1 is the
\* set_gauge_if_valid call for latitude, made with a finite latitude within
\* [-90, 90] that the step publishes; and while it is 0 geoclue_latitude still
\* holds the 0 of setup, whatever the other five gauges were set to.
C34_DataAvailableNeedsLatitude ==
    /\ [](gauges # NoGauges =>
            gauges["geoclue_data_available"] \in {Fin(0), Fin(1000)})
    /\ [][(/\ gauges'["geoclue_data_available"] = Fin(1000)
           /\ gauges["geoclue_data_available"] # Fin(1000)) =>
            (/\ pc = "set_lat" /\ pc' = "set_lon"
             /\ cur.lat.k = "fin" /\ cur.lat.m >= -90000 /\ cur.lat.m <= 90000
             /\ gauges'["geoclue_latitude"] = cur.lat)]_vars
    /\ [](gauges["geoclue_data_available"] = Fin(0) =>
            gauges["geoclue_latitude"] = Fin(0))

\* two notifications were published, both with a rejected latitude (-90.001,
\* then 91): longitude, accuracy, speed and heading hold the first one's
\* values and altitude the second one's, and geoclue_data_available is still 0
C34_Witness ==
    /\ pc = "next" /\ Running /\ received_updates = 2
    /\ cur.lat = Fin(91000)
    /\ gauges["geoclue_longitude"] = Fin(180000)
    /\ gauges["geoclue_heading"] = Fin(360000)
    /\ gauges["geoclue_altitude"] = cur.alt
    /\ gauges["geoclue_latitude"] = Fin(0)
    /\ gauges["geoclue_data_available"] = Fin(0)

\* C35: the remote Stop is invoked at most once per started session, whichever
\* way the shutdown task and the main task's teardown interleave, and it is
\* never invoked on a client on which Start has not succeeded.
C35_StopAtMostOnce ==
    /\ Cardinality({c \in calls : c.member = "Stop"}) <= 1
    /\ (\E c \in calls : c.member = "Stop") => client \in {"started", "stopped"}

\* C36: every way the process ends after Start has succeeded is preceded by an
\* attempt to invoke the remote Stop.  Once main has returned (Ok or an error)
\* or the shutdown task has exited the process, with Start served before, a
\* Stop call was made on the client.  (A process killed by a signal for which
\* no handler is installed yet is left aside.)
C36_EveryEndStopsTheSession ==
    (proc \in {"ok", "err", "exit0"} /\ client \in {"started", "stopped"}) =>
        \E c \in calls : c.member = "Stop" /\ c.path = client_path

\* C37: no notification is lost at session start.  Every LocationUpdated the
\* service emits after Start has returned reaches the stream of the monitor
\* loop: none is emitted while no subscription is in place.
C37_NoNotificationLost ==
    lost = 0

\* C38: a reader that samples the sink at any moment sees no torn reading.
\* From the second notification on, when geoclue_latitude holds the latitude
\* accepted from the notification being published, every other field of that
\* notification that passes its bounds is in its gauge too, rather than the
\* value of the notification before.
C38_NoTornReading ==
    (/\ Running /\ received_updates >= 2
     /\ pc \in {"set_lon", "set_acc", "set_alt", "set_spd", "set_head", "next"}
     /\ WithinBounds("lat", cur.lat)
     /\ gauges["geoclue_latitude"] = cur.lat) =>
        \A f \in Fields :
            WithinBounds(f, cur[f]) => gauges["geoclue_" \o FieldName(f)] = cur[f]

(***************************************************************************)
(* Session establishment for every command line: main() from its start to  *)
(* the return of Start                                                     *)
(***************************************************************************)
DistanceThresholds == {0, 10, 1000}
TimeThresholds == {0, 30}
AllArgs ==
    [bind_address : BindAddresses,
     accuracy_level : AccuracyLevelArg,
     distance_threshold : DistanceThresholds, time_threshold : TimeThresholds]

EstablishInit ==
    /\ \E a \in AllArgs : ProcStart(a)
    /\ gauges = NoGauges /\ ValIdle /\ ClsIdle /\ SupIdle

EstablishNext ==
    \/ MSetup /\ UNCHANGED procOthers
    \/ MConnection /\ UNCHANGED procOthers
    \/ MPlain /\ UNCHANGED procOthers
    \/ MGetClient /\ UNCHANGED procOthers
    \/ MSetProperty /\ UNCHANGED procOthers
    \/ MStart /\ UNCHANGED procOthers
    \/ CtrlC /\ UNCHANGED procOthers

EstablishSpec == EstablishInit /\ [][EstablishNext]_vars

\* C16: the value written to RequestedAccuracyLevel is the fixed ordinal of the
\* tier named on the command line (none 0, country 1, city 4, neighborhood 5,
\* street 6, exact 8), the conversion from the command-line tier keeps the
\* tier's name, and the value is written before Start is called.
C16_AccuracyOrdinal ==
    /\ props.RequestedAccuracyLevel # -1 =>
          props.RequestedAccuracyLevel =
              (CASE args.accuracy_level = "none"         -> 0
                 [] args.accuracy_level = "country"      -> 1
                 [] args.accuracy_level = "city"         -> 4
                 [] args.accuracy_level = "neighborhood" -> 5
                 [] args.accuracy_level = "street"       -> 6
                 [] args.accuracy_level = "exact"        -> 8)
    /\ AccuracyLevel_from(args.accuracy_level) =
          (CASE args.accuracy_level = "none"         -> "None"
             [] args.accuracy_level = "country"      -> "Country"
             [] args.accuracy_level = "city"         -> "City"
             [] args.accuracy_level = "neighborhood" -> "Neighborhood"
             [] args.accuracy_level = "street"       -> "Street"
             [] args.accuracy_level = "exact"        -> "Exact")
    /\ client = "started" => props.RequestedAccuracyLevel # -1

\* C19: with a bind address that does not parse, main gets no further than
\* setup_metrics: it returns the error "Failed to parse bind address" with no
\* bus connection opened, no client created or started, no property written and
\* no gauge set.
C19_MalformedBindAddressFailsFirst ==
    ~ParsesAsSocketAddr(args.bind_address) =>
        /\ pc \in {"setup", "failed"}
        /\ pc = "failed" =>
              (proc = "err" /\ mainErr = "parse_bind_address" /\ errText = TParseBind)
        /\ conns = 0 /\ client = "none" /\ props = NoProps /\ gauges = NoGauges

\* the address of the integration test, "not-an-address%", and main has
\* returned the error
C19_Witness ==
    /\ args.bind_address = AddrNotAnAddress /\ pc = "failed" /\ proc = "err"
    /\ errText = TParseBind /\ conns = 0 /\ gauges = NoGauges

\* Start has returned for a command line naming the tier city, and the remote
\* client holds 4
C16_Witness ==
    /\ pc = "spawn" /\ client = "started" /\ args.accuracy_level = "city"
    /\ props.RequestedAccuracyLevel = 4

(***************************************************************************)
(* One call of set_gauge_if_valid, from every sink state a processed       *)
(* notification can leave and for every field name and value of interest   *)
(***************************************************************************)
TestNames == {"latitude", "longitude", "accuracy", "altitude", "speed", "heading",
              "unknown_metric", "Latitude", "geoclue_latitude"}

\* NaN, the infinities, -1.7e308 and below, then -181, -180, -91, -90, -1, -0.01,
\* 0, 5.2, 10.5, 35.123, 90, 91, 123.4, 135.456, 180, 181, 270, 360, 360.01, 361,
\* 1000
TestValues ==
    {NaN, PosInf, NegInf, NegF64Max, Neg17e308,
     Fin(-181000), Fin(-180000), Fin(-91000), Fin(-90000), Fin(-1000), Fin(-10),
     Fin(0), Fin(5200), Fin(10500), Fin(35123), Fin(90000), Fin(91000),
     Fin(123400), Fin(135456), Fin(180000), Fin(181000), Fin(270000),
     Fin(360000), Fin(360010), Fin(361000), Fin(1000000)}

\* the six calls main() makes for one notification, in their order
RECURSIVE PublishFrom(_, _, _)
PublishFrom(g, r, i) ==
    IF i > 6 THEN g
    ELSE PublishFrom(set_gauge_if_valid(g, FieldName(FieldOrder[i]), r[FieldOrder[i]]).gauges,
                     r, i + 1)
PublishAll(g, r) == PublishFrom(g, r, 1)

\* the sink after setup, and after setup and one notification
PreGauges == {SetupGauges} \cup {PublishAll(SetupGauges, r) : r \in Readings}

ValInit ==
    /\ vPhase = "call" /\ vName \in TestNames /\ vValue \in TestValues
    /\ gauges \in PreGauges /\ vBefore = gauges /\ vRet = FALSE
    /\ ProcInit /\ ClsIdle /\ SupIdle

VCall ==
    /\ vPhase = "call"
    /\ LET r == set_gauge_if_valid(gauges, vName, vValue)
       IN  gauges' = r.gauges /\ vRet' = r.ret
    /\ vPhase' = "returned"
    /\ UNCHANGED <<vName, vValue, vBefore, procVars, clsVars, supVars>>

ValNext == VCall

ValidatorSpec == ValInit /\ [][ValNext]_vars

C9_SentinelRejectedForEveryField ==
    (vPhase = "returned" /\ IsSentinel(vValue)) => (~vRet /\ gauges = vBefore)

\* C10: for a finite value other than -1.0 and those <= -1.7e308 the validator
\* accepts "heading" exactly when 0 <= v <= 360 (0.0 and 360.0 accepted, 360.01,
\* 361.0 and -0.01 rejected); accepting sets geoclue_heading to v.
C10_HeadingRange ==
    (vPhase = "returned" /\ vName = "heading" /\ is_finite(vValue)
       /\ ~IsSentinel(vValue)) =>
        /\ vRet <=> (vValue.m >= 0 /\ vValue.m <= 360000)
        /\ vRet => gauges["geoclue_heading"] = vValue
        /\ ~vRet => gauges = vBefore

\* 360.0 accepted and published over a different earlier heading
C10_Witness ==
    /\ vPhase = "returned" /\ vName = "heading" /\ vValue = Fin(360000)
    /\ vRet /\ gauges["geoclue_heading"] = Fin(360000)
    /\ vBefore["geoclue_heading"] = Fin(270000)

\* C11: for a finite value other than -1.0 and those <= -1.7e308 the validator
\* rejects "accuracy" and "speed" exactly when v < 0; 0 and every positive value
\* are accepted and published under the field's gauge.
C11_AccuracySpeedNonNegative ==
    (vPhase = "returned" /\ vName \in {"accuracy", "speed"} /\ is_finite(vValue)
       /\ ~IsSentinel(vValue)) =>
        /\ ~vRet <=> vValue.m < 0
        /\ vRet => /\ vName = "accuracy" => gauges["geoclue_accuracy"] = vValue
                   /\ vName = "speed" => gauges["geoclue_speed"] = vValue
        /\ ~vRet => gauges = vBefore

\* 0.0 accepted as a speed and published over a different earlier speed
C11_Witness ==
    /\ vPhase = "returned" /\ vName = "speed" /\ vValue = Fin(0)
    /\ vRet /\ gauges["geoclue_speed"] = Fin(0)
    /\ vBefore["geoclue_speed"] = Fin(5200)

\* C12: for a finite value other than -1.0 and those <= -1.7e308 the validator
\* accepts "longitude" exactly when -180 <= v <= 180 (180.0 and -180.0 accepted,
\* 181.0 and -181.0 rejected); accepting sets geoclue_longitude to v.
C12_LongitudeRange ==
    (vPhase = "returned" /\ vName = "longitude" /\ is_finite(vValue)
       /\ ~IsSentinel(vValue)) =>
        /\ vRet <=> (vValue.m >= -180000 /\ vValue.m <= 180000)
        /\ vRet => gauges["geoclue_longitude"] = vValue
        /\ ~vRet => gauges = vBefore

\* 180.0 accepted and published over a different earlier longitude
C12_Witness ==
    /\ vPhase = "returned" /\ vName = "longitude" /\ vValue = Fin(180000)
    /\ vRet /\ gauges["geoclue_longitude"] = Fin(180000)
    /\ vBefore["geoclue_longitude"] = Fin(-120)

\* C13: for every field name, known or not, NaN, +infinity and -infinity are
\* rejected: the call returns false and no gauge changes, geoclue_data_available
\* included, whatever the field's range rule would say.
C13_NonFiniteRejected ==
    (vPhase = "returned" /\ vValue \in {NaN, PosInf, NegInf}) =>
        (~vRet /\ gauges = vBefore)

\* +infinity offered as an altitude, the field with no range rule, over a sink
\* that holds an earlier reading
C13_Witness ==
    /\ vPhase = "returned" /\ vName = "altitude" /\ vValue = PosInf
    /\ ~vRet /\ gauges = vBefore /\ gauges["geoclue_altitude"] = Fin(123400)
    /\ gauges["geoclue_data_available"] = Fin(1000)

\* C14: for a field name outside latitude, longitude, accuracy, altitude, speed
\* and heading, and any value, the call returns false and no gauge changes.
C14_UnknownNameRejected ==
    (vPhase = "returned"
       /\ vName \notin {"latitude", "longitude", "accuracy", "altitude", "speed",
                        "heading"}) =>
        (~vRet /\ gauges = vBefore)

\* the name the source's own test uses, with a finite value, rejected over a
\* sink that holds an earlier reading
C14_Witness ==
    /\ vPhase = "returned" /\ vName = "unknown_metric" /\ vValue = Fin(10500)
    /\ ~vRet /\ gauges = vBefore /\ gauges # SetupGauges

\* C30: "altitude" has no range bound: every finite value other than -1.0 and
\* those <= -1.7e308, negative or large, is accepted and sets geoclue_altitude.
C30_AltitudeUnbounded ==
    (vPhase = "returned" /\ vName = "altitude" /\ is_finite(vValue)
       /\ ~IsSentinel(vValue)) =>
        (vRet /\ gauges["geoclue_altitude"] = vValue)

\* -181.0, below every other field's lower bound, accepted as an altitude over
\* an earlier altitude
C30_Witness ==
    /\ vPhase = "returned" /\ vName = "altitude" /\ vValue = Fin(-181000)
    /\ vRet /\ gauges["geoclue_altitude"] = Fin(-181000)
    /\ vBefore["geoclue_altitude"] = Fin(123400)

\* C32: the frame of one call.  A call that returns false leaves every gauge
\* as it was (the six reading gauges, geoclue_data_available, up and the
\* update-count gauge); a call that returns true was made for one of the six
\* field names, sets the gauge of that field to the value, sets
\* geoclue_data_available to 1 when the field is latitude, and leaves every
\* other gauge as it was.
C32_OnlyTheNamedGaugeChanges ==
    vPhase = "returned" =>
        /\ ~vRet => gauges = vBefore
        /\ vRet =>
              /\ vName \in {"latitude", "longitude", "accuracy", "altitude",
                             "speed", "heading"}
              /\ gauges["geoclue_" \o vName] = vValue
              /\ vName = "latitude" => gauges["geoclue_data_available"] = Fin(1000)
              /\ \A n \in MetricNames :
                    (/\ n # "geoclue_" \o vName
                     /\ ~(vName = "latitude" /\ n = "geoclue_data_available")) =>
                        gauges[n] = vBefore[n]

\* heading 270.0 accepted over the heading 360 of an earlier notification whose
\* latitude was rejected: geoclue_data_available stays 0, latitude and
\* longitude are those of before, up stays 1
C32_Witness ==
    /\ vPhase = "returned" /\ vName = "heading" /\ vValue = Fin(270000) /\ vRet
    /\ vBefore["geoclue_heading"] = Fin(360000)
    /\ gauges["geoclue_heading"] = Fin(270000)
    /\ gauges["geoclue_data_available"] = Fin(0)
    /\ gauges["geoclue_longitude"] = Fin(180000)
    /\ gauges["up"] = Fin(1000)

(***************************************************************************)
(* One call of is_disconnection_error                                      *)
(***************************************************************************)
ClsInit ==
    /\ cPhase = "call" /\ cText \in ErrorTexts /\ cRet = FALSE
    /\ ProcInit /\ gauges = NoGauges /\ ValIdle /\ SupIdle

CCall ==
    /\ cPhase = "call"
    /\ cRet' = is_disconnection_error(cText)
    /\ cPhase' = "returned"
    /\ UNCHANGED <<cText, procVars, gauges, valVars, supVars>>

ClsNext == CCall

ClassifierSpec == ClsInit /\ [][ClsNext]_vars

\* C4: the classifier answers transient exactly for the texts that hold one of
\* the six phrases in some casing ("Remote peer disconnected", "Connection closed
\* by peer", ...) and fatal for every other text ("Permission denied", "Invalid
\* argument", "File not found", "Service not found", ...).
C4_ClassifierPartition ==
    cPhase = "returned" =>
        /\ cText \in TransientTexts => cRet
        /\ cText \in FatalTexts => ~cRet

\* "org.freedesktop.DBus.Error.NoReply: Remote peer disconnected", a capitalised
\* phrase inside a longer text, classified transient
C4_Witness ==
    /\ cPhase = "returned" /\ cText = TNoReplyRemote /\ cRet

(***************************************************************************)
(* The reconnection supervisor and its retry state.  Their source is not   *)
(* in src/ either; they are taken from the specification (sections 3, 4.5  *)
(* and 4.6).                                                               *)
(***************************************************************************)
MaxFailures == 8

BaseDelay == 2
MaxDelay == 60
CapExponent == 6

Min(a, b) == IF a < b THEN a ELSE b

\* delay = min(base * 2^min(attempt, capExponent), maxDelay)
backoff_Uncapped(n) == BaseDelay * 2^Min(n, CapExponent)
backoff(n) == Min(BaseDelay * 2^Min(n, CapExponent), MaxDelay)

\* the errors an establishment or a monitor may end with
SupErrors == {TNoReplyRemote, TClosedByPeer, TPermission}

SupInit ==
    /\ supState = "Idle" /\ attempt = 0 /\ delay = BaseDelay
    /\ shutdownFlag = FALSE /\ slept = <<>> /\ failures = 0 /\ supErr = <<>>
    /\ ProcInit /\ gauges = NoGauges /\ ValIdle /\ ClsIdle

supOthers == <<procVars, gauges, valVars, clsVars>>

\* Idle -> Connecting, unless the Shutdown Flag is set
SupLoop ==
    /\ supState = "Idle"
    /\ supState' = IF shutdownFlag THEN "Terminated" ELSE "Connecting"
    /\ UNCHANGED <<attempt, delay, shutdownFlag, slept, failures, supErr, supOthers>>

\* Connecting -> Monitoring: the retry state resets to {0, base}
SupEstablished_NoReset ==
    /\ supState = "Connecting"
    /\ supState' = "Monitoring"
    /\ UNCHANGED <<attempt, delay, shutdownFlag, slept, failures, supErr, supOthers>>
SupEstablished ==
    /\ supState = "Connecting"
    /\ supState' = "Monitoring"
    /\ attempt' = 0 /\ delay' = BaseDelay
    /\ UNCHANGED <<shutdownFlag, slept, failures, supErr, supOthers>>

\* Connecting -> Retrying on a transient error, -> Terminated on a fatal one
SupEstablishFailed(e) ==
    /\ supState = "Connecting"
    /\ IF is_disconnection_error(e)
       THEN supState' = "Retrying" /\ failures' = failures + 1 /\ UNCHANGED supErr
       ELSE supState' = "Terminated" /\ supErr' = e /\ UNCHANGED failures
    /\ UNCHANGED <<attempt, delay, shutdownFlag, slept, supOthers>>

\* Monitoring -> Retrying on a transient error, -> Terminated on a fatal one; a
\* failure right after a success starts a new run of failures
SupMonitorFailed(e) ==
    /\ supState = "Monitoring"
    /\ IF is_disconnection_error(e)
       THEN supState' = "Retrying" /\ failures' = 1 /\ slept' = <<>> /\ UNCHANGED supErr
       ELSE supState' = "Terminated" /\ supErr' = e /\ UNCHANGED <<failures, slept>>
    /\ UNCHANGED <<attempt, delay, shutdownFlag, supOthers>>

\* Monitoring -> ShuttingDown -> Terminated once the flag is observed
SupObserveShutdown ==
    /\ supState = "Monitoring" /\ shutdownFlag
    /\ supState' = "ShuttingDown"
    /\ UNCHANGED <<attempt, delay, shutdownFlag, slept, failures, supErr, supOthers>>
SupCleanup ==
    /\ supState = "ShuttingDown"
    /\ supState' = "Terminated"
    /\ UNCHANGED <<attempt, delay, shutdownFlag, slept, failures, supErr, supOthers>>

\* Retrying: sleep Retry State.delay (given up when the flag is set), advance
\* the retry state, loop
SupRetry ==
    /\ supState = "Retrying"
    /\ IF shutdownFlag
       THEN supState' = "Terminated" /\ UNCHANGED <<attempt, delay, slept>>
       ELSE /\ Len(slept) < MaxFailures
            /\ slept' = Append(slept, delay)
            /\ attempt' = attempt + 1
            /\ delay' = backoff(attempt')
            /\ supState' = "Idle"
    /\ UNCHANGED <<shutdownFlag, failures, supErr, supOthers>>

\* the Shutdown Coordinator sets the flag, once
SupSetShutdown ==
    /\ ~shutdownFlag /\ supState # "Terminated"
    /\ shutdownFlag' = TRUE
    /\ UNCHANGED <<supState, attempt, delay, slept, failures, supErr, supOthers>>

SupNext ==
    \/ SupLoop
    \/ SupEstablished
    \/ (\E e \in SupErrors : SupEstablishFailed(e))
    \/ (\E e \in SupErrors : SupMonitorFailed(e))
    \/ SupObserveShutdown
    \/ SupCleanup
    \/ SupRetry
    \/ SupSetShutdown

SupervisorSpec == SupInit /\ [][SupNext]_vars

\* 2, 4, 8, 16, 32, 60, 60, 60, ...
ExpectedDelay(i) == IF i <= 5 THEN 2^i ELSE 60

\* C5: the delays slept in an unbroken run of transient failures are
\* 2, 4, 8, 16, 32, 60, 60, 60, ... seconds: non-decreasing, never above 60.
C5_BackoffSequence ==
    /\ \A i \in 1..Len(slept) : slept[i] = ExpectedDelay(i) /\ slept[i] <= 60
    /\ \A i \in 1..(Len(slept) - 1) : slept[i] <= slept[i + 1]

\* a run long enough to have met the cap twice
C5_Witness ==
    /\ Len(slept) >= 7 /\ slept[5] = 32 /\ slept[6] = 60 /\ slept[7] = 60

\* C6: whenever the supervisor is Monitoring (a session was just established),
\* however many transient failures came before, the retry state is {0, base}.
C6_ResetOnSuccess ==
    supState = "Monitoring" => (attempt = 0 /\ delay = BaseDelay)

\* a success after three transient failures in a row
C6_Witness ==
    /\ supState = "Monitoring" /\ failures = 3 /\ Len(slept) = 3 /\ attempt = 0

====
